---- MODULE Spec2Model ----
(***************************************************************************)
(* Model of custom_components/mysigen_battery/sensor.py: the shared        *)
(* MySigenData client (authenticate, update), setup_platform, and the nine *)
(* sensor entities' native_value properties.                               *)
(*                                                                         *)
(* Python values are tagged records, so that None, strings, numbers and    *)
(* dicts can be told apart and compared.  A float produced by              *)
(* round(x, 2) is kept exactly, as its number of hundredths.               *)
(***************************************************************************)
EXTENDS Integers, Sequences, FiniteSets, TLC

VARIABLES
    access_token,      \* MySigenData.access_token
    station_id,        \* MySigenData.station_id
    data,              \* MySigenData.data: dict with keys energy_flow, statistics
    last_valid_value,  \* MySigenBatterySoC._last_valid_value
    config,            \* the platform configuration given to setup_platform
    entities,          \* sensors handed to add_entities by setup_platform
    setup,             \* position of setup_platform: "pending", "halted", "done"
    op,                \* the operation that ran last
    requests,          \* HTTP requests issued by the operation that ran last, in order
    env,               \* what each endpoint answered to the operation that ran last
    ret,               \* value returned by the operation that ran last
    raised,            \* exception that left the operation that ran last ("none" if none)
    call,              \* the update() under way or last run: the client's fields when it
                       \* was called, and what the endpoints have answered it so far
    socSnaps,          \* batterySoc of the energy_flow snapshot installed by each cycle
    socReads,          \* charge-level reading taken after each cycle
    lastSeen,          \* per sensor: what its latest query that saw its field present returned
    polled             \* the polling round under way: what each sensor polled so far did

vars == <<access_token, station_id, data, last_valid_value, config, entities, setup,
          op, requests, env, ret, raised, call, socSnaps, socReads, lastSeen, polled>>

\* what is recorded about a run, besides the program's own state
history == <<socSnaps, socReads, lastSeen, polled>>

(***************************************************************************)
(* Python values                                                           *)
(***************************************************************************)
PyNone == [t |-> "None", s |-> "", n |-> 0]
StrVal(x) == [t |-> "str", s |-> x, n |-> 0]
IntVal(k) == [t |-> "int", s |-> "", n |-> k]
\* the float h / 100
Float2Val(h) == [t |-> "float", s |-> "", n |-> h]
BoolVal(b) == [t |-> "bool", s |-> "", n |-> IF b THEN 1 ELSE 0]
DictVal(m) == [t |-> "dict", m |-> m]
EmptyMap == [k \in {} |-> PyNone]
\* the body of a response that is not JSON: response.json() raises
NotJson == [t |-> "notjson", s |-> "", n |-> 0]

\* bool(v), as used by `not v`
Truthy(v) ==
    CASE v.t = "None" -> FALSE
      [] v.t = "str" -> v.s # ""
      [] v.t = "repr" -> TRUE
      [] v.t = "dict" -> DOMAIN v.m # {}
      [] OTHER -> v.n # 0

\* abs(n)
Abs(n) == IF n < 0 THEN -n ELSE n

\* a == b on numbers: int, bool and float compare by value (False == 0, 0.0 == 0)
IsNumber(v) == v.t \in {"int", "bool", "float"}
Hundredths(v) == IF v.t = "float" THEN v.n ELSE 100 * v.n

\* a == b
PyEq(a, b) ==
    IF IsNumber(a) /\ IsNumber(b) THEN Hundredths(a) = Hundredths(b) ELSE a = b

\* the float -0.0: equal to 0 and false like 0.0, written with its sign
NegZero == [t |-> "float", s |-> "-", n |-> 0]

\* two decimal digits of k, 0 <= k < 100, without a trailing zero
Decimals(k) ==
    IF k % 10 = 0 THEN ToString(k \div 10)
    ELSE IF k < 10 THEN "0" \o ToString(k)
    ELSE ToString(k)

\* repr of the float h / 100; the floats of the model are far below 1e16,
\* where repr turns to exponents
FloatRepr(h) ==
    (IF h < 0 THEN "-" ELSE "") \o ToString(Abs(h) \div 100) \o "." \o Decimals(Abs(h) % 100)

\* repr(v) of None, a number or a bool
ScalarRepr(v) ==
    CASE v.t = "None" -> "None"
      [] v.t = "int" -> ToString(v.n)
      [] v.t = "bool" -> IF v.n = 1 THEN "True" ELSE "False"
      [] OTHER -> IF v = NegZero THEN "-0.0" ELSE FloatRepr(v.n)

\* The str that repr(v) gives for a dict v that is not empty.  Its text lists
\* the keys in the order of the JSON object and quotes the strings, neither of
\* which a dict of the model keeps: the string is known by the dict it was
\* made from.  It is a str, and never empty.
ReprVal(v) == [t |-> "repr", of |-> v]

\* str(v): the string itself, and repr(v) for everything else
PyStr(v) ==
    CASE v.t \in {"str", "repr"} -> v
      [] v.t = "dict" -> IF DOMAIN v.m = {} THEN StrVal("{}") ELSE ReprVal(v)
      [] OTHER -> StrVal(ScalarRepr(v))

\* result of evaluating an expression: a value, or an exception
Ok(v) == [exc |-> "none", val |-> v]
Raise(e) == [exc |-> e, val |-> PyNone]

\* m.get(k, default) on the dict whose mapping is m
DictGet(m, k, default) == IF k \in DOMAIN m THEN m[k] ELSE default

\* v.get(k, default) on any value: only a dict has the attribute
Get(v, k, default) ==
    IF v.t = "dict" THEN Ok(DictGet(v.m, k, default)) ELSE Raise("AttributeError")

\* v[k]
GetItem(v, k) ==
    IF v.t = "dict"
    THEN IF k \in DOMAIN v.m THEN Ok(v.m[k]) ELSE Raise("KeyError")
    ELSE Raise("TypeError")

\* SetItem, merging a new dict into the dict already bound to the key
SetItemMerging(m, k, v) ==
    IF k \in DOMAIN m /\ m[k].t = "dict" /\ v.t = "dict"
    THEN [m EXCEPT ![k] = DictVal([f \in DOMAIN m[k].m \cup DOMAIN v.m |->
                                     IF f \in DOMAIN v.m THEN v.m[f] ELSE m[k].m[f]])]
    ELSE [x \in DOMAIN m \cup {k} |-> IF x = k THEN v ELSE m[x]]

\* m[k] = v on the mapping m: the key is bound to the new value as a whole
SetItem(m, k, v) == [x \in DOMAIN m \cup {k} |-> IF x = k THEN v ELSE m[x]]

(***************************************************************************)
(* round(power / 1000, 2)                                                  *)
(***************************************************************************)
MantissaBits == 52
ScaleThreshold == 100
ScaleDivisor == 1000
RoundDigits == 2

RECURSIVE ShiftUp(_, _)
\* least a * 2^i that is >= b
ShiftUp(a, b) == IF a >= b THEN a ELSE ShiftUp(2 * a, b)

RECURSIVE ShiftDen(_, _)
\* greatest b * 2^i that is <= a
ShiftDen(a, b) == IF 2 * b > a THEN b ELSE ShiftDen(a, 2 * b)

RECURSIVE DivBits(_, _, _, _)
\* long division: i more quotient bits of r / b; yields the remainder and the last bit
DivBits(r, b, i, bit) ==
    IF i = 0 THEN [r |-> r, bit |-> bit]
    ELSE IF 2 * r >= b THEN DivBits(2 * r - b, b, i - 1, 1)
         ELSE DivBits(2 * r, b, i - 1, 0)

\* how the quotient was rounded to 53 bits, given what long division left:
\* -1 down, 1 up, 0 not at all; a remainder of half a unit rounds to even
DivRounding(d, b) ==
    IF d.r = 0 THEN 0
    ELSE IF 2 * d.r < b THEN -1
    ELSE IF 2 * d.r > b THEN 1
    ELSE IF d.bit = 1 THEN 1 ELSE -1

\* a / b for b <= a < 2 * b: the leading bit is 1, MantissaBits more follow
DivNormal(a, b) == DivRounding(DivBits(a - b, b, MantissaBits, 1), b)

\* a / b for a >= b
DivScaled(a, b) == DivNormal(a, ShiftDen(a, b))

\* sign of (the double a / b) - (the rational a / b), for a, b > 0:
\* IEEE-754 division rounds the quotient to 53 significant bits, ties to even
TrueDivError(a, b) == DivScaled(ShiftUp(a, b), b)

\* 10 ^ k
RECURSIVE Pow10(_)
Pow10(k) == IF k = 0 THEN 1 ELSE 10 * Pow10(k - 1)

\* a, in units of 1 / unit, to the nearest integer; at a tie the error e of the
\* double decides, and a double that is exactly halfway goes to even
RoundHalf(a, unit, e) ==
    IF \/ 2 * (a % unit) > unit
       \/ 2 * (a % unit) = unit /\ (e = 1 \/ (e = 0 /\ (a \div unit) % 2 = 1))
    THEN (a \div unit) + 1
    ELSE a \div unit

\* round(n / 1000, 2) for an int n # 0, in hundredths: the decimal nearest to
\* the double n / 1000
RoundDiv(n) ==
    IF n < 0
    THEN -RoundHalf(-n, ScaleDivisor \div Pow10(RoundDigits), TrueDivError(-n, ScaleDivisor))
    ELSE RoundHalf(n, ScaleDivisor \div Pow10(RoundDigits), TrueDivError(n, ScaleDivisor))

\* FloatRoundDiv for a float that is not negative
FloatRoundDivAbs(a) ==
    IF 2 * (a % ScaleDivisor) > ScaleDivisor THEN (a \div ScaleDivisor) + 1
    ELSE IF 2 * (a % ScaleDivisor) < ScaleDivisor THEN a \div ScaleDivisor
    ELSE RoundDiv(a \div Pow10(RoundDigits))

\* round(x / 1000, 2) for the float x = h / 100, in hundredths; x / 1000 is
\* halfway between two hundredths only when x is a whole number
FloatRoundDiv(h) == IF h < 0 THEN -FloatRoundDivAbs(-h) ELSE FloatRoundDivAbs(h)

(***************************************************************************)
(* HTTP: what one request can come back with                               *)
(***************************************************************************)
HttpOk == 200

\* requests raises (Timeout or ConnectionError) instead of returning
Fault(kind) == [net |-> kind, status |-> 0, body |-> PyNone]
\* a response with a status code and a body
Http(status, body) == [net |-> "ok", status |-> status, body |-> body]
\* no request was made
Unused == [net |-> "unused", status |-> 0, body |-> PyNone]

\* {"code": c, "data": d} and {"code": c}
Envelope(c, d) == DictVal([code |-> IntVal(c), data |-> d])
EnvelopeNoData(c) == DictVal([code |-> IntVal(c)])

\* m restricted to the keys K
Restrict(m, K) == [k \in K |-> m[k]]

\* the ways a request fails: timeout, network error, 401 rejection,
\* a body that is not JSON, a non-zero application code
Failures ==
    { Fault("Timeout"), Fault("ConnectionError"),
      Http(401, EnvelopeNoData(401)),
      Http(HttpOk, NotJson),
      Http(HttpOk, EnvelopeNoData(1)) }

\* status 200 and code 0, with data missing, null, or one of D
Answers(D) ==
    {Http(HttpOk, EnvelopeNoData(0))} \cup {Http(HttpOk, Envelope(0, d)) : d \in {PyNone} \cup D}

Tokens == {StrVal("T1")}
LoginData ==
    {DictVal(EmptyMap)} \cup
    {DictVal([access_token |-> v]) : v \in {PyNone} \cup Tokens}
LoginOutcomes == Failures \cup Answers(LoginData)

StationData ==
    {DictVal(EmptyMap)} \cup
    {DictVal([stationId |-> v]) : v \in {PyNone, StrVal(""), IntVal(7)}}
StationOutcomes == Failures \cup Answers(StationData)

EnergyFields == {"batterySoc", "batteryPower", "pvPower", "buySellPower", "loadPower"}
PowerFields == EnergyFields \ {"batterySoc"}
EnergySamples ==
    { [batterySoc |-> IntVal(55), batteryPower |-> IntVal(-2505), pvPower |-> IntVal(3125),
       buySellPower |-> IntVal(100), loadPower |-> IntVal(615)],
      [batterySoc |-> IntVal(60), batteryPower |-> IntVal(-100), pvPower |-> IntVal(0),
       buySellPower |-> IntVal(-135), loadPower |-> IntVal(101)] }
\* the whole samples, and the first one without its batterySoc
EnergyData ==
    {DictVal(m) : m \in EnergySamples} \cup
    {DictVal(Restrict(m, PowerFields)) : m \in {x \in EnergySamples : x.batterySoc = IntVal(55)}}
\* also a whole sample under the code false, which equals 0
EnergyOutcomes ==
    Failures \cup Answers(EnergyData)
    \cup {Http(HttpOk, DictVal([code |-> BoolVal(FALSE), data |-> DictVal(m)])) :
            m \in {x \in EnergySamples : x.batterySoc = IntVal(60)}}

StatsFields == {"dayGeneration", "monthGeneration", "yearGeneration", "lifetimeGeneration"}
StatsSamples ==
    { [dayGeneration |-> IntVal(12), monthGeneration |-> IntVal(340),
       yearGeneration |-> IntVal(4100), lifetimeGeneration |-> IntVal(9000)],
      [dayGeneration |-> IntVal(13), monthGeneration |-> IntVal(341),
       yearGeneration |-> IntVal(4101), lifetimeGeneration |-> IntVal(9001)] }
\* the whole samples, and the first one with its dayGeneration only
StatsData ==
    {DictVal(m) : m \in StatsSamples} \cup
    {DictVal(Restrict(m, {"dayGeneration"})) : m \in {x \in StatsSamples : x.dayGeneration = IntVal(12)}}
\* also a JSON body that is no object: null
StatsOutcomes == Failures \cup Answers(StatsData) \cup {Http(HttpOk, PyNone)}

\* auth: authenticate called on its own; login: authenticate called by update
NoEnv ==
    [auth |-> Unused, login |-> Unused, station |-> Unused, energy |-> Unused,
     stats |-> Unused]

\* the answers of the endpoints that were asked
Asked(o, reqs) ==
    LET R == {reqs[i] : i \in DOMAIN reqs}
    IN  [auth |-> Unused,
         login |-> IF "login" \in R THEN o.login ELSE Unused,
         station |-> IF "station" \in R THEN o.station ELSE Unused,
         energy |-> IF "energy" \in R THEN o.energy ELSE Unused,
         stats |-> IF "stats" \in R THEN o.stats ELSE Unused]

(***************************************************************************)
(* MySigenData                                                             *)
(***************************************************************************)
\* request e is among reqs
Issued(reqs, e) == \E i \in DOMAIN reqs : reqs[i] = e

\* result["data"], once it is evaluated: hit says that it was reached
Reached(g) == [exc |-> g.exc, hit |-> g.exc = "none", val |-> g.val]

\* what the code makes of the response o:
\*   if resp.status_code == 200: result = resp.json()
\*       if result.get("code") == 0: ... result["data"] ...
\* json() raises on a body that is not JSON; .get raises on JSON that is no object
ResponseData(o) ==
    IF o.net # "ok" THEN [exc |-> o.net, hit |-> FALSE, val |-> PyNone]
    ELSE IF o.status # HttpOk THEN [exc |-> "none", hit |-> FALSE, val |-> PyNone]
    ELSE IF o.body.t = "notjson" THEN [exc |-> "ValueError", hit |-> FALSE, val |-> PyNone]
    ELSE IF o.body.t # "dict" THEN [exc |-> "AttributeError", hit |-> FALSE, val |-> PyNone]
    ELSE IF ~PyEq(DictGet(o.body.m, "code", PyNone), IntVal(0))
    THEN [exc |-> "none", hit |-> FALSE, val |-> PyNone]
    ELSE Reached(GetItem(o.body, "data"))

\* `except Exception` of authenticate
AuthCatches(exc) == TRUE

\* self.access_token = a; return True
AuthStore(tok, a) ==
    IF a.exc # "none" THEN [exc |-> a.exc, ret |-> FALSE, access_token |-> tok]
    ELSE [exc |-> "none", ret |-> TRUE, access_token |-> a.val]

\* authenticate after the login request came back with g
AuthResponse(tok, g) ==
    IF g.exc # "none" THEN [exc |-> g.exc, ret |-> FALSE, access_token |-> tok]
    ELSE IF g.hit THEN AuthStore(tok, GetItem(g.val, "access_token"))
    ELSE [exc |-> "none", ret |-> FALSE, access_token |-> tok]

\* the try block of authenticate
AuthTry(tok, o) == AuthResponse(tok, ResponseData(o))

\* the except clause of authenticate, the try block having ended as r
AuthExcept(r) ==
    IF r.exc # "none" /\ AuthCatches(r.exc)
    THEN [exc |-> "none", ret |-> FALSE, access_token |-> r.access_token]
    ELSE r

\* AuthExcept, answering True
AuthExceptTrue(r) ==
    IF r.exc # "none" /\ AuthCatches(r.exc)
    THEN [exc |-> "none", ret |-> TRUE, access_token |-> r.access_token]
    ELSE r

\* authenticate, answering True from its exception handler
authenticateTrueOnError(tok, o) == AuthExceptTrue(AuthTry(tok, o))

\* MySigenData.authenticate: one login request; True once the token is stored
authenticate(tok, o) == AuthExcept(AuthTry(tok, o))

\* The try block of update runs on a record c: the client's fields, the requests
\* issued so far, the exception raised (if any), and whether update has returned.
Running(c) == c.exc = "none" /\ ~c.returned
Raising(c, exc) == [c EXCEPT !.exc = exc]
Asking(c, e) == [c EXCEPT !.requests = Append(@, e)]

\* self.station_id = str(v)
StationStore(c, v) ==
    IF v.exc # "none" THEN Raising(c, v.exc)
    ELSE [c EXCEPT !.station_id = PyStr(v.val)]

\* update after the station request came back with g
StationResponse(c, g) ==
    IF g.exc # "none" THEN Raising(c, g.exc)
    ELSE IF g.hit THEN StationStore(c, GetItem(g.val, "stationId"))
    ELSE c

\* StationStep, looking the station up whether or not an id is cached
StationStepAlways(c, o) ==
    IF ~Running(c) THEN c
    ELSE StationResponse(Asking(c, "station"), ResponseData(o))

\* update, "Get station info if needed"
StationStep(c, o) ==
    IF ~Running(c) \/ Truthy(c.station_id) THEN c
    ELSE StationResponse(Asking(c, "station"), ResponseData(o))

\* update, `if not self.station_id: return`
StationCheck(c) ==
    IF Running(c) /\ ~Truthy(c.station_id) THEN [c EXCEPT !.returned = TRUE] ELSE c

\* self.data[key] = result["data"], the request having come back with g
DataResponse(c, key, g) ==
    IF g.exc # "none" THEN Raising(c, g.exc)
    ELSE IF g.hit THEN [c EXCEPT !.data = SetItem(@, key, g.val)]
    ELSE c

\* EnergyStep, asking a second time when the first answer brought no data
EnergyStepRetrying(c, o) ==
    IF ~Running(c) THEN c
    ELSE IF ResponseData(o).hit
    THEN DataResponse(Asking(c, "energy"), "energy_flow", ResponseData(o))
    ELSE DataResponse(Asking(Asking(c, "energy"), "energy"), "energy_flow", ResponseData(o))

\* update, "Get energy flow"
EnergyStep(c, o) ==
    IF ~Running(c) THEN c
    ELSE DataResponse(Asking(c, "energy"), "energy_flow", ResponseData(o))

\* update, "Get statistics"
StatisticsStep(c, o) ==
    IF ~Running(c) THEN c
    ELSE DataResponse(Asking(c, "stats"), "statistics", ResponseData(o))

\* the try block of update
UpdateTry(c, o) ==
    StatisticsStep(EnergyStep(StationCheck(StationStep(c, o.station)), o.energy), o.stats)

\* UpdateCatches, catching the exceptions of requests only
UpdateCatchesRequestsOnly(exc) == exc \in {"Timeout", "ConnectionError"}

\* `except Exception` of update
UpdateCatches(exc) == TRUE

\* the except clause of update, the try block having ended as c
UpdateExcept(c) ==
    IF c.exc # "none" /\ UpdateCatches(c.exc) THEN Raising(c, "none") ELSE c

\* the client's fields as update finds them; reqs are the requests issued so far
Client(tok, sid, d, reqs) ==
    [exc |-> "none", returned |-> FALSE, access_token |-> tok, station_id |-> sid,
     data |-> d, requests |-> reqs]

\* update after its authenticate() ended as a
UpdateLoggedIn(sid, d, o, a) ==
    IF a.exc # "none" THEN Raising(Client(a.access_token, sid, d, <<"login">>), a.exc)
    ELSE IF ~a.ret
    THEN [Client(a.access_token, sid, d, <<"login">>) EXCEPT !.returned = TRUE]
    ELSE UpdateExcept(UpdateTry(Client(a.access_token, sid, d, <<"login">>), o))

\* UpdateLoggedIn, going on after a failed login
UpdateLoggedInAnyway(sid, d, o, a) ==
    IF a.exc # "none" THEN Raising(Client(a.access_token, sid, d, <<"login">>), a.exc)
    ELSE UpdateExcept(UpdateTry(Client(a.access_token, sid, d, <<"login">>), o))

\* update, going on after a failed login
updateDespiteLogin(tok, sid, d, o) ==
    IF ~Truthy(tok) THEN UpdateLoggedInAnyway(sid, d, o, authenticate(tok, o.login))
    ELSE UpdateExcept(UpdateTry(Client(tok, sid, d, << >>), o))

\* update, logging in at every refresh
updateAlwaysLogin(tok, sid, d, o) ==
    UpdateLoggedIn(sid, d, o, authenticate(tok, o.login))

\* MySigenData.update on the client fields (tok, sid, d), the endpoints answering o
update(tok, sid, d, o) ==
    IF ~Truthy(tok) THEN UpdateLoggedIn(sid, d, o, authenticate(tok, o.login))
    ELSE UpdateExcept(UpdateTry(Client(tok, sid, d, << >>), o))

\* A call of update(): the client's fields when it was called, and what the
\* endpoints have answered so far (Unused: no answer yet)
Call(tok, sid, d, o) ==
    [active |-> TRUE, access_token |-> tok, station_id |-> sid, data |-> d, answers |-> o]
NoCall ==
    [active |-> FALSE, access_token |-> PyNone, station_id |-> PyNone, data |-> EmptyMap,
     answers |-> NoEnv]

\* How far the update() of call c has got: it runs on the answers it has, and
\* stops at the first request that has none (session.post, session.get block)
Run(c) == update(c.access_token, c.station_id, c.data, c.answers)

\* update() has an answer to every request it sent: it has returned
Returned(r, o) == \A i \in DOMAIN r.requests : o[r.requests[i]] # Unused

\* the request update() waits on: the first it sent that has no answer
Awaited(r, o) ==
    r.requests[CHOOSE i \in DOMAIN r.requests :
                  /\ o[r.requests[i]] = Unused
                  /\ \A j \in 1 .. (i - 1) : o[r.requests[j]] # Unused]

\* call c, the request it waits on being answered a
Answer(c, a) == [c EXCEPT !.answers[Awaited(Run(c), c.answers)] = a]

(***************************************************************************)
(* Sensors                                                                 *)
(***************************************************************************)
Sensors ==
    { "MySigenBatterySoC", "MySigenBatteryPower", "MySigenPVPower", "MySigenGridPower",
      "MySigenLoadPower", "MySigenDayGeneration", "MySigenMonthGeneration",
      "MySigenYearGeneration", "MySigenLifetimeGeneration" }
PowerSensors ==
    {"MySigenBatteryPower", "MySigenPVPower", "MySigenGridPower", "MySigenLoadPower"}
StatsSensors ==
    { "MySigenDayGeneration", "MySigenMonthGeneration", "MySigenYearGeneration",
      "MySigenLifetimeGeneration" }

\* AutoScale, scaling from the threshold on
AutoScaleFromThreshold(power) ==
    IF power.t \in {"int", "bool"}
    THEN IF Abs(power.n) >= ScaleThreshold THEN Ok(Float2Val(RoundDiv(power.n)))
         ELSE Ok(power)
    ELSE IF power.t = "float"
    THEN IF Abs(power.n) >= Pow10(RoundDigits) * ScaleThreshold
         THEN Ok(Float2Val(FloatRoundDiv(power.n)))
         ELSE Ok(power)
    ELSE Raise("TypeError")

\* round(power / 1000, 2) if abs(power) > 100 else power, for an int, a bool
\* (an int to abs and /) or a float; abs of anything else raises
AutoScale(power) ==
    IF power.t \in {"int", "bool"}
    THEN IF Abs(power.n) > ScaleThreshold THEN Ok(Float2Val(RoundDiv(power.n)))
         ELSE Ok(power)
    ELSE IF power.t = "float"
    THEN IF Abs(power.n) > Pow10(RoundDigits) * ScaleThreshold
         THEN Ok(Float2Val(FloatRoundDiv(power.n)))
         ELSE Ok(power)
    ELSE Raise("TypeError")

\* data.get(key, {}).get(field)
Lookup(d, key, field) ==
    Get(DictGet(d, key, DictVal(EmptyMap)), field, PyNone)

\* a native_value that leaves the charge-level sensor's memory alone
Plain(r, last) == [exc |-> r.exc, val |-> r.val, last_valid_value |-> last]

\* SoCValue, not falling back on the last value
SoCValueForgetful(current_value, last) ==
    IF current_value.exc # "none" THEN Plain(current_value, last)
    ELSE [exc |-> "none", val |-> current_value.val,
          last_valid_value |-> current_value.val]

\* the charge-level sensor, having looked current_value up
SoCValue(current_value, last) ==
    IF current_value.exc # "none" THEN Plain(current_value, last)
    ELSE IF current_value.val # PyNone
    THEN [exc |-> "none", val |-> current_value.val,
          last_valid_value |-> current_value.val]
    ELSE [exc |-> "none", val |-> last, last_valid_value |-> last]

\* MySigenBatterySoC.native_value
BatterySoC_native_value(d, last) ==
    SoCValue(Lookup(d, "energy_flow", "batterySoc"), last)

\* a power sensor, having looked power up
PowerValue(power) ==
    IF power.exc # "none" THEN power
    ELSE IF power.val # PyNone THEN AutoScale(power.val)
    ELSE Ok(PyNone)

\* native_value of a power sensor reading `field`
PowerNativeValue(d, field) == PowerValue(Lookup(d, "energy_flow", field))

BatteryPower_native_value(d) == PowerNativeValue(d, "batteryPower")
PVPower_native_value(d) == PowerNativeValue(d, "pvPower")
GridPower_native_value(d) == PowerNativeValue(d, "buySellPower")
LoadPower_native_value(d) == PowerNativeValue(d, "loadPower")
DayGeneration_native_value(d) == Lookup(d, "statistics", "dayGeneration")
MonthGeneration_native_value(d) == Lookup(d, "statistics", "monthGeneration")
YearGeneration_native_value(d) == Lookup(d, "statistics", "yearGeneration")
LifetimeGeneration_native_value(d) == Lookup(d, "statistics", "lifetimeGeneration")

\* native_value, every sensor falling back on the last value as the charge-level one does
native_valueSticky(s, d, last) ==
    CASE s = "MySigenBatterySoC" -> BatterySoC_native_value(d, last)
      [] s = "MySigenBatteryPower" -> SoCValue(BatteryPower_native_value(d), last)
      [] s = "MySigenPVPower" -> SoCValue(PVPower_native_value(d), last)
      [] s = "MySigenGridPower" -> SoCValue(GridPower_native_value(d), last)
      [] s = "MySigenLoadPower" -> SoCValue(LoadPower_native_value(d), last)
      [] s = "MySigenDayGeneration" -> SoCValue(DayGeneration_native_value(d), last)
      [] s = "MySigenMonthGeneration" -> SoCValue(MonthGeneration_native_value(d), last)
      [] s = "MySigenYearGeneration" -> SoCValue(YearGeneration_native_value(d), last)
      [] OTHER -> SoCValue(LifetimeGeneration_native_value(d), last)

\* native_value of sensor s
native_value(s, d, last) ==
    CASE s = "MySigenBatterySoC" -> BatterySoC_native_value(d, last)
      [] s = "MySigenBatteryPower" -> Plain(BatteryPower_native_value(d), last)
      [] s = "MySigenPVPower" -> Plain(PVPower_native_value(d), last)
      [] s = "MySigenGridPower" -> Plain(GridPower_native_value(d), last)
      [] s = "MySigenLoadPower" -> Plain(LoadPower_native_value(d), last)
      [] s = "MySigenDayGeneration" -> Plain(DayGeneration_native_value(d), last)
      [] s = "MySigenMonthGeneration" -> Plain(MonthGeneration_native_value(d), last)
      [] s = "MySigenYearGeneration" -> Plain(YearGeneration_native_value(d), last)
      [] OTHER -> Plain(LifetimeGeneration_native_value(d), last)

\* the source field of each sensor
SourceKey(s) == IF s \in StatsSensors THEN "statistics" ELSE "energy_flow"
SourceField(s) ==
    CASE s = "MySigenBatterySoC" -> "batterySoc"
      [] s = "MySigenBatteryPower" -> "batteryPower"
      [] s = "MySigenPVPower" -> "pvPower"
      [] s = "MySigenGridPower" -> "buySellPower"
      [] s = "MySigenLoadPower" -> "loadPower"
      [] s = "MySigenDayGeneration" -> "dayGeneration"
      [] s = "MySigenMonthGeneration" -> "monthGeneration"
      [] s = "MySigenYearGeneration" -> "yearGeneration"
      [] OTHER -> "lifetimeGeneration"

(***************************************************************************)
(* Operations                                                              *)
(***************************************************************************)
\* MySigenData.__init__ and the sensors' __init__, before setup_platform has run
Init ==
    /\ access_token = PyNone
    /\ station_id = PyNone
    /\ data = EmptyMap
    /\ last_valid_value = PyNone
    /\ config = [username |-> StrVal("user"), password |-> StrVal("secret")]
    /\ entities = {}
    /\ setup = "pending"
    /\ op = "init"
    /\ requests = << >>
    /\ env = NoEnv
    /\ ret = PyNone
    /\ raised = "none"
    /\ call = NoCall
    /\ socSnaps = << >>
    /\ socReads = << >>
    /\ lastSeen = [s \in Sensors |-> PyNone]
    /\ polled = << >>

\* authenticate() ended as r, the login endpoint having answered o
Authenticated(r, o) ==
    /\ access_token' = r.access_token
    /\ op' = "authenticate"
    /\ requests' = <<"login">>
    /\ env' = [NoEnv EXCEPT !.auth = o]
    /\ ret' = IF r.exc = "none" THEN BoolVal(r.ret) ELSE PyNone
    /\ raised' = r.exc
    /\ UNCHANGED <<station_id, data, last_valid_value, config, entities, setup, call>>

\* data_handler.authenticate(), the login endpoint answering o.  It sends one
\* request and stores nothing before the answer, so that the client is as it
\* was until authenticate() returns; it is not called while an update() runs.
Authenticate(o) == ~call.active /\ Authenticated(authenticate(access_token, o), o)

\* Updated, the refresh itself storing the batterySoc it fetched in the
\* charge-level sensor's memory
UpdatedRemembering(r, c) ==
    /\ access_token' = r.access_token
    /\ station_id' = r.station_id
    /\ data' = r.data
    /\ requests' = r.requests
    /\ env' = Asked(c.answers, r.requests)
    /\ ret' = PyNone
    /\ op' = IF Returned(r, c.answers) THEN "update" ELSE "update waits"
    /\ raised' = IF Returned(r, c.answers) THEN r.exc ELSE "none"
    /\ call' = [c EXCEPT !.active = ~Returned(r, c.answers)]
    /\ last_valid_value' =
          IF Lookup(r.data, "energy_flow", "batterySoc").val # PyNone
          THEN Lookup(r.data, "energy_flow", "batterySoc").val
          ELSE last_valid_value
    /\ UNCHANGED <<config, entities, setup>>

\* The update() of call c has got as far as r: it has stored what the answers
\* so far brought, and either waits for the answer to the request it sent
\* last, or has returned.
Updated(r, c) ==
    /\ access_token' = r.access_token
    /\ station_id' = r.station_id
    /\ data' = r.data
    /\ requests' = r.requests
    /\ env' = Asked(c.answers, r.requests)
    /\ ret' = PyNone
    /\ op' = IF Returned(r, c.answers) THEN "update" ELSE "update waits"
    /\ raised' = IF Returned(r, c.answers) THEN r.exc ELSE "none"
    /\ call' = [c EXCEPT !.active = ~Returned(r, c.answers)]
    /\ UNCHANGED <<last_valid_value, config, entities, setup>>

\* data_handler.update() is called, runs up to its first request and waits for
\* the answer (it sends at least one: the login, the station lookup or the
\* energy-flow request); one update() runs at a time
Update ==
    /\ ~call.active
    /\ Updated(Run(Call(access_token, station_id, data, NoEnv)),
               Call(access_token, station_id, data, NoEnv))

\* the request the update() under way waits on is answered a: update() stores
\* what it brought and goes on to its next request, or returns
UpdateAnswered(a) ==
    /\ call.active
    /\ Updated(Run(Answer(call, a)), Answer(call, a))

\* the update() under way gets an answer of W to the request it waits on
UpdateResumes(W) ==
    /\ call.active
    /\ \E a \in W[Awaited(Run(call), call.answers)] : UpdateAnswered(a)

\* SensorUpdate, only the first sensor of the list refreshing the shared client
SensorUpdateFirstOnly(s) ==
    /\ s \in Sensors
    /\ IF s = "MySigenBatterySoC" THEN Update
       ELSE /\ ~call.active
            /\ Updated(Client(access_token, station_id, data, << >>),
                       Call(access_token, station_id, data, NoEnv))

\* MySigenSensor.update of sensor s
SensorUpdate(s) == s \in Sensors /\ Update

\* Read, looking the payload up with setdefault: a missing key is bound to {}
ReadSettingDefault(s, r) ==
    /\ last_valid_value' = r.last_valid_value
    /\ op' = s
    /\ requests' = << >>
    /\ env' = NoEnv
    /\ ret' = r.val
    /\ raised' = r.exc
    /\ data' = IF SourceKey(s) \in DOMAIN data THEN data
               ELSE SetItem(data, SourceKey(s), DictVal(EmptyMap))
    /\ UNCHANGED <<access_token, station_id, config, entities, setup, call>>

\* native_value of sensor s ended as r
Read(s, r) ==
    /\ last_valid_value' = r.last_valid_value
    /\ op' = s
    /\ requests' = << >>
    /\ env' = NoEnv
    /\ ret' = r.val
    /\ raised' = r.exc
    /\ UNCHANGED <<access_token, station_id, data, config, entities, setup, call>>

\* the host reads native_value of sensor s, also while an update() waits
NativeValue(s) == Read(s, native_value(s, data, last_valid_value))

\* setup_platform stops: no sensor is created
SetupHalted(tok, reqs, e, exc) ==
    /\ setup' = "halted"
    /\ access_token' = tok
    /\ requests' = reqs
    /\ env' = e
    /\ raised' = exc
    /\ UNCHANGED <<station_id, data, entities>>

\* setup_platform after its "Initial update" ended as u: the sensors are created
SetupUpdated(l, o, u) ==
    /\ access_token' = u.access_token
    /\ station_id' = u.station_id
    /\ data' = u.data
    /\ requests' = <<"login">> \o u.requests
    /\ env' = [Asked(o, u.requests) EXCEPT !.auth = l]
    /\ raised' = u.exc
    /\ setup' = IF u.exc = "none" THEN "done" ELSE "halted"
    /\ entities' = IF u.exc = "none" THEN Sensors ELSE {}

\* setup_platform after its authenticate() ended as a
SetupLoggedIn(l, o, a) ==
    IF a.exc # "none" \/ ~a.ret
    THEN SetupHalted(a.access_token, <<"login">>, [NoEnv EXCEPT !.auth = l], a.exc)
    ELSE SetupUpdated(l, o, update(a.access_token, PyNone, EmptyMap, o))

\* setup_platform; the login endpoint answers l to its authenticate(), the
\* endpoints answer o to its initial update().  Its data_handler is a local
\* until the sensors are created at the end, so that nothing can look at the
\* client on the way: setup_platform is one step.
SetupPlatform(l, o) ==
    /\ setup = "pending"
    /\ op' = "setup_platform"
    /\ ret' = PyNone
    /\ UNCHANGED <<last_valid_value, config, call>>
    /\ IF ~Truthy(config.username) \/ ~Truthy(config.password)
       THEN SetupHalted(access_token, << >>, NoEnv, "none")
       ELSE SetupLoggedIn(l, o, authenticate(PyNone, l))

Configs == [username : {PyNone, StrVal(""), StrVal("user")},
            password : {PyNone, StrVal("secret")}]

\* what the endpoints may answer: one set of answers per endpoint
World ==
    [login |-> LoginOutcomes, station |-> StationOutcomes,
     energy |-> EnergyOutcomes, stats |-> StatsOutcomes]

\* the answers of W to request e of the update that starts from the client
\* fields (tok, sid, d) and is answered o so far: an endpoint answers only when asked
Pick(tok, sid, d, W, o, e) ==
    IF Issued(update(tok, sid, d, o).requests, e) THEN W[e] ELSE {Unused}

\* the answers the endpoints of W may give to the initial update of
\* setup_platform, which starts from the client fields (tok, sid, d)
UpdateInputsFrom(tok, sid, d, W) ==
    UNION { UNION { UNION {
        { [NoEnv EXCEPT !.login = l, !.station = s, !.energy = e, !.stats = t] :
            t \in Pick(tok, sid, d, W,
                       [NoEnv EXCEPT !.login = l, !.station = s, !.energy = e], "stats") } :
          e \in Pick(tok, sid, d, W, [NoEnv EXCEPT !.login = l, !.station = s], "energy") } :
        s \in Pick(tok, sid, d, W, [NoEnv EXCEPT !.login = l], "station") } :
      l \in Pick(tok, sid, d, W, NoEnv, "login") }

\* the client driven directly: authenticate() and update() in any order
Next ==
    \/ \E o \in LoginOutcomes :
          Authenticate(o) /\ UNCHANGED history
    \/ Update /\ UNCHANGED history
    \/ UpdateResumes(World) /\ UNCHANGED history

Spec == Init /\ [][Next]_vars

(***************************************************************************)
(* The sensors read between refreshes                                      *)
(***************************************************************************)
\* a login that grants the token, a station lookup that names the station
Grant == Http(HttpOk, Envelope(0, DictVal([access_token |-> StrVal("T1")])))
Station == Http(HttpOk, Envelope(0, DictVal([stationId |-> IntVal(7)])))

\* endpoints that let the client in, and answer the two data requests with a
\* timeout, a non-zero code, no data, null data, or a snapshot
SensorWorld ==
    [login |-> {Grant}, station |-> {Station},
     energy |-> {Fault("Timeout"), Http(HttpOk, EnvelopeNoData(1))} \cup
                Answers(EnergyData \cup {DictVal(EmptyMap)}),
     stats |-> {Fault("Timeout"), Http(HttpOk, EnvelopeNoData(1))} \cup
               Answers(StatsData \cup {DictVal(EmptyMap)})]

SensorsNext ==
    \/ Update /\ UNCHANGED history
    \/ UpdateResumes(SensorWorld) /\ UNCHANGED history
    \/ \E s \in Sensors :
          NativeValue(s) /\ UNCHANGED history

SpecSensors == Init /\ [][SensorsNext]_vars

(***************************************************************************)
(* The charge-level sensor read once after every refresh                   *)
(***************************************************************************)
MaxCycles == 4

\* endpoints whose energy-flow request always succeeds with a snapshot
SnapshotWorld ==
    [login |-> {Grant}, station |-> {Station},
     energy |-> {Http(HttpOk, Envelope(0, d)) : d \in EnergyData},
     stats |-> StatsOutcomes]

\* a refresh cycle starts, after the reading of the one before
SoCCycle ==
    /\ op \in {"init", "MySigenBatterySoC"}
    /\ Len(socSnaps) < MaxCycles
    /\ Update
    /\ UNCHANGED history

\* the batterySoc of the snapshot that answer a to request e brings a refresh:
\* recorded when the energy-flow request is answered
Fetched(snaps, e, a) ==
    IF e = "energy" THEN Append(snaps, DictGet(a.body.m.data.m, "batterySoc", PyNone))
    ELSE snaps

\* the refresh cycle under way gets an answer of W to the request it waits on
CycleResumes(W) ==
    /\ call.active
    /\ \E a \in W[Awaited(Run(call), call.answers)] :
          /\ UpdateAnswered(a)
          /\ socSnaps' = Fetched(socSnaps, Awaited(Run(call), call.answers), a)
    /\ UNCHANGED <<socReads, lastSeen, polled>>

\* the refresh cycle under way goes on
SoCAnswer == CycleResumes(SnapshotWorld)

\* the reading taken after the cycle is recorded
SoCRead ==
    /\ op = "update"
    /\ NativeValue("MySigenBatterySoC")
    /\ socReads' = Append(socReads, ret')
    /\ UNCHANGED <<socSnaps, lastSeen, polled>>

SoCNext ==
    \/ SoCCycle
    \/ SoCAnswer
    \/ SoCRead

SpecSoC == Init /\ [][SoCNext]_vars

(***************************************************************************)
(* The power sensors as functions of the cached snapshot                   *)
(***************************************************************************)
MaxPower == 1200

\* float readings, in hundredths: 0.0, 99.5, 100.0, 100.01, 105.0, 115.0, 2505.5
\* and their negatives
FloatPowers ==
    {h : h \in {0, 9950, 10000, 10001, 10500, 11500, 250550}}
    \cup {-h : h \in {9950, 10000, 10001, 10500, 11500, 250550}}

\* snapshots with one power field, an int, a float, a bool or null, and
\* snapshots with all four
PowerSnapshots ==
    {DictVal([k \in {f} |-> IntVal(v)]) : f \in PowerFields, v \in -MaxPower .. MaxPower}
    \cup {DictVal([k \in {f} |-> Float2Val(h)]) : f \in PowerFields, h \in FloatPowers}
    \cup {DictVal([k \in {f} |-> BoolVal(b)]) : f \in PowerFields, b \in BOOLEAN}
    \cup {DictVal([k \in {f} |-> PyNone]) : f \in PowerFields}
    \cup {DictVal(m) : m \in EnergySamples}

\* a client that holds a token, a station id and an energy_flow snapshot
PowerInit ==
    /\ access_token = StrVal("T1")
    /\ station_id = StrVal("7")
    /\ data \in {[energy_flow |-> e] : e \in PowerSnapshots}
    /\ last_valid_value = PyNone
    /\ config = [username |-> StrVal("user"), password |-> StrVal("secret")]
    /\ entities = {}
    /\ setup = "pending"
    /\ op = "init"
    /\ requests = << >>
    /\ env = NoEnv
    /\ ret = PyNone
    /\ raised = "none"
    /\ call = NoCall
    /\ socSnaps = << >>
    /\ socReads = << >>
    /\ lastSeen = [s \in Sensors |-> PyNone]
    /\ polled = << >>

PowerNext ==
    \E s \in PowerSensors : NativeValue(s) /\ UNCHANGED history

SpecPower == PowerInit /\ [][PowerNext]_vars

(***************************************************************************)
(* The host: setup_platform, then polling of the registered entities       *)
(***************************************************************************)
HostInit ==
    /\ access_token = PyNone
    /\ station_id = PyNone
    /\ data = EmptyMap
    /\ last_valid_value = PyNone
    /\ config \in Configs
    /\ entities = {}
    /\ setup = "pending"
    /\ op = "init"
    /\ requests = << >>
    /\ env = NoEnv
    /\ ret = PyNone
    /\ raised = "none"
    /\ call = NoCall
    /\ socSnaps = << >>
    /\ socReads = << >>
    /\ lastSeen = [s \in Sensors |-> PyNone]
    /\ polled = << >>

\* the answers to setup_platform: none without credentials, a login answer, and
\* the answers to the initial update if the login let the client in
SetupInputs ==
    IF ~Truthy(config.username) \/ ~Truthy(config.password)
    THEN {<<Unused, NoEnv>>}
    ELSE UNION { IF authenticate(PyNone, l).ret
                 THEN {<<l, o>> : o \in UpdateInputsFrom(authenticate(PyNone, l).access_token,
                                                          PyNone, EmptyMap, World)}
                 ELSE {<<l, NoEnv>>} : l \in LoginOutcomes }

\* endpoints that let the client in, and answer the two data requests with a
\* timeout or a whole snapshot
PollWorld ==
    [login |-> {Grant}, station |-> {Station},
     energy |-> {Fault("Timeout")} \cup
                {Http(HttpOk, Envelope(0, DictVal(m))) : m \in EnergySamples},
     stats |-> {Fault("Timeout")} \cup
               {Http(HttpOk, Envelope(0, DictVal(m))) : m \in StatsSamples}]

HostNext ==
    \/ /\ setup = "pending"
       /\ \E i \in SetupInputs :
             SetupPlatform(i[1], i[2]) /\ UNCHANGED history
    \/ \E s \in entities :
          SensorUpdate(s) /\ UNCHANGED history
    \/ UpdateResumes(PollWorld) /\ UNCHANGED history
    \/ \E s \in entities :
          NativeValue(s) /\ UNCHANGED history

SpecHost == HostInit /\ [][HostNext]_vars

(***************************************************************************)
(* The sensors other than the charge level, read between refreshes, with   *)
(* what each returned when it last saw its field                           *)
(***************************************************************************)
\* the cached snapshot of sensor s is an object that has a value for its field
Present(d, s) ==
    /\ SourceKey(s) \in DOMAIN d
    /\ d[SourceKey(s)].t = "dict"
    /\ DictGet(d[SourceKey(s)].m, SourceField(s), PyNone) # PyNone

\* no snapshot is cached for sensor s, or it is an object without a value for
\* its field: the key is missing, or bound to null
Absent(d, s) ==
    \/ SourceKey(s) \notin DOMAIN d
    \/ /\ d[SourceKey(s)].t = "dict"
       /\ DictGet(d[SourceKey(s)].m, SourceField(s), PyNone) = PyNone

\* the sample snapshots that readings are compared against
FirstEnergy == CHOOSE m \in EnergySamples : m.batterySoc = IntVal(55)
FirstStats == CHOOSE m \in StatsSamples : m.dayGeneration = IntVal(12)

\* endpoints that let the client in, and answer each data request with a
\* timeout, a whole snapshot, an empty one, or one whose fields are null
MemoryWorld ==
    [login |-> {Grant}, station |-> {Station},
     energy |-> {Fault("Timeout")} \cup
                { Http(HttpOk, Envelope(0, d)) :
                    d \in {DictVal(FirstEnergy), DictVal(EmptyMap),
                           DictVal([f \in PowerFields |-> PyNone])} },
     stats |-> {Fault("Timeout")} \cup
               { Http(HttpOk, Envelope(0, d)) :
                   d \in {DictVal(FirstStats), DictVal(EmptyMap),
                          DictVal([f \in StatsFields |-> PyNone])} }]

\* the host reads sensor s; what it returned is kept if it saw its field
Query(s) ==
    /\ NativeValue(s)
    /\ lastSeen' = IF Present(data, s) THEN [lastSeen EXCEPT ![s] = ret'] ELSE lastSeen
    /\ UNCHANGED <<socSnaps, socReads, polled>>

MemoryNext ==
    \/ Update /\ UNCHANGED history
    \/ UpdateResumes(MemoryWorld) /\ UNCHANGED history
    \/ \E s \in Sensors \ {"MySigenBatterySoC"} : Query(s)

SpecMemory == Init /\ [][MemoryNext]_vars

(***************************************************************************)
(* The charge-level sensor read at any time between refreshes              *)
(***************************************************************************)
\* endpoints that let the client in and always answer the energy-flow request
\* with a snapshot
StickyWorld ==
    [login |-> {Grant}, station |-> {Station},
     energy |-> {Http(HttpOk, Envelope(0, d)) : d \in EnergyData},
     stats |-> {Fault("Timeout"), Http(HttpOk, Envelope(0, DictVal(FirstStats)))}]

\* a refresh cycle starts; the sensor may be queried while it runs
StickyCycle ==
    /\ Len(socSnaps) < MaxCycles
    /\ Update
    /\ UNCHANGED history

\* the refresh cycle under way goes on; the batterySoc of the snapshot it
\* installs is recorded
StickyAnswer == CycleResumes(StickyWorld)

StickyNext ==
    \/ StickyCycle
    \/ StickyAnswer
    \/ Query("MySigenBatterySoC")

SpecSticky == Init /\ [][StickyNext]_vars

(***************************************************************************)
(* Polling rounds: after setup_platform the host goes through the sensors  *)
(* in the order of the list, calling update() and then reading native_value *)
(***************************************************************************)
\* what is cached under key k of d: nothing, or one value
Snapshot(d, k) == IF k \in DOMAIN d THEN <<d[k]>> ELSE << >>

\* the list `sensors` handed to add_entities
SensorList ==
    << "MySigenBatterySoC", "MySigenBatteryPower", "MySigenPVPower", "MySigenGridPower",
       "MySigenLoadPower", "MySigenDayGeneration", "MySigenMonthGeneration",
       "MySigenYearGeneration", "MySigenLifetimeGeneration" >>

\* endpoints that let the client in; the energy-flow endpoint answers with one
\* of the two sample snapshots, the statistics endpoint with the first sample
RoundWorld ==
    [login |-> {Grant}, station |-> {Station},
     energy |-> {Http(HttpOk, Envelope(0, DictVal(m))) : m \in EnergySamples},
     stats |-> {Http(HttpOk, Envelope(0, DictVal(FirstStats)))}]

\* the sensor the host polls next
NextPolled == SensorList[(Len(polled) % Len(SensorList)) + 1]

\* the host calls update() of the next sensor; a round that is complete starts over
PollUpdate ==
    /\ entities # {}
    /\ op # "update"
    /\ SensorUpdate(NextPolled)
    /\ polled' = IF Len(polled) = Len(SensorList) THEN << >> ELSE polled
    /\ UNCHANGED <<socSnaps, socReads, lastSeen>>

\* the update() under way goes on
PollAnswer == UpdateResumes(RoundWorld) /\ UNCHANGED history

\* the host reads the sensor whose update() has returned; recorded are the requests of
\* that update, what the endpoint of the sensor's payload key answered to it,
\* the snapshot the sensor read from, and what it returned
PollRead ==
    /\ entities # {}
    /\ op = "update"
    /\ NativeValue(NextPolled)
    /\ polled' = Append(polled,
                        [sensor |-> NextPolled,
                         requests |-> requests,
                         answer |-> IF NextPolled \in StatsSensors THEN env.stats
                                    ELSE env.energy,
                         source |-> Snapshot(data, SourceKey(NextPolled)),
                         ret |-> ret'])
    /\ UNCHANGED <<socSnaps, socReads, lastSeen>>

RoundNext ==
    \/ /\ setup = "pending"
       /\ \E o \in UpdateInputsFrom(StrVal("T1"), PyNone, EmptyMap, RoundWorld) :
             SetupPlatform(Grant, o) /\ UNCHANGED history
    \/ PollUpdate
    \/ PollAnswer
    \/ PollRead

SpecRound == Init /\ [][RoundNext]_vars

(***************************************************************************)
(* Properties                                                              *)
(***************************************************************************)
\* a successful response: status 200, application code 0, carrying data
Succeeds(o) ==
    /\ o.net = "ok"
    /\ o.status = 200
    /\ o.body.t = "dict"
    /\ "code" \in DOMAIN o.body.m /\ PyEq(o.body.m.code, IntVal(0))
    /\ "data" \in DOMAIN o.body.m

\* the data of a successful response
DataOf(o) == o.body.m.data

\* a login response that carries an access token
Grants(o) ==
    /\ Succeeds(o)
    /\ DataOf(o).t = "dict"
    /\ "access_token" \in DOMAIN DataOf(o).m

\* no token is held, no station id is cached
NoToken == ~Truthy(access_token)
NoStation == ~Truthy(station_id)

\* C1: in every refresh cycle that has a station id, if the energy-flow fetch
\* fails (timeout, network error, non-200, non-zero code, malformed body) and
\* the statistics endpoint answers t successfully (or would, were it asked),
\* then after the cycle the cached statistics snapshot is t's data and the
\* energy_flow snapshot is as it was when the cycle started
C1_StatisticsDespiteEnergyFailure ==
    ( /\ op = "update"
      /\ Issued(requests, "energy")
      /\ env.energy \in Failures )
    => \A t \in StatsOutcomes :
          (Succeeds(t) /\ (Issued(requests, "stats") => env.stats = t))
          => /\ Snapshot(data, "statistics") = <<DataOf(t)>>
             /\ Snapshot(data, "energy_flow") = Snapshot(call.data, "energy_flow")

\* C2: whatever the refresh cycles were answered, reading the current value of
\* a sensor never raises
C2_ReadingNeverRaises == op \in Sensors => raised = "none"

\* C3: a refresh that starts without a token and whose login fails does not
\* raise, issues no request but the login, and leaves the token, the station id
\* and both cached snapshots as they were when it started
C3_FailedLoginLeavesState ==
    ( /\ op = "update"
      /\ ~Truthy(call.access_token)
      /\ Issued(requests, "login")
      /\ ~Grants(env.login) )
    => /\ raised = "none"
       /\ requests = <<"login">>
       /\ access_token = call.access_token
       /\ station_id = call.station_id
       /\ data = call.data

\* a refresh found no token, its login failed, and there was a station id and
\* two snapshots to keep
C3_Witness ==
    /\ op = "update"
    /\ requests = <<"login">>
    /\ env.login \in Failures
    /\ Truthy(station_id)
    /\ DOMAIN data = {"energy_flow", "statistics"}

\* C4: no exception leaves a refresh, whatever the four endpoints answer
C4_UpdateNeverRaises == op = "update" => raised = "none"

\* a refresh whose login, station lookup, energy-flow or statistics request
\* ended in an exception inside it
C4_Witness ==
    /\ op = "update"
    /\ \/ env.station = Fault("ConnectionError")
       \/ env.energy = Http(HttpOk, EnvelopeNoData(0))
       \/ env.stats = Http(HttpOk, NotJson)

\* C5: once a station id is cached, no later step sends a station lookup (a
\* lookup among the requests of the refresh under way is the one that was
\* answered before) and the cached station id never changes
C5_StationCachedForGood ==
    [][ ~NoStation
        => /\ station_id' = station_id
           /\ Issued(requests', "station")
                 => (call.active /\ call.answers.station # Unused) ]_vars

\* a refresh that ran with a cached station id, did not look the station up,
\* and whose energy-flow and statistics fetches both failed
C5_Witness ==
    /\ op = "update"
    /\ Truthy(station_id)
    /\ ~Issued(requests, "station")
    /\ env.energy \in Failures
    /\ env.stats \in Failures

\* C8: each cached payload key is replaced by the whole data of a successful
\* response to its request, and is left as it was by anything else
C8_WholesaleReplacement ==
    [][ /\ Snapshot(data', "energy_flow") =
             IF Succeeds(env'.energy) THEN <<DataOf(env'.energy)>>
             ELSE Snapshot(data, "energy_flow")
        /\ Snapshot(data', "statistics") =
             IF Succeeds(env'.stats) THEN <<DataOf(env'.stats)>>
             ELSE Snapshot(data, "statistics") ]_vars

\* a refresh replaced a cached energy_flow snapshot by one that has no batterySoc,
\* and the statistics snapshot by one that has a dayGeneration only
C8_Witness ==
    /\ op = "update"
    /\ Succeeds(env.energy)
    /\ Succeeds(env.stats)
    /\ data["energy_flow"].t = "dict" /\ "batterySoc" \notin DOMAIN data["energy_flow"].m
    /\ data["statistics"].t = "dict" /\ DOMAIN data["statistics"].m = {"dayGeneration"}

\* C9: a refresh logs in exactly when it starts without a token, and a refresh
\* that starts with a token leaves it as it is, whatever the endpoints answer
C9_LoginOnlyWithoutToken ==
    op \in {"update", "update waits"}
    => /\ Issued(requests, "login") <=> ~Truthy(call.access_token)
       /\ Truthy(call.access_token) => access_token = call.access_token

\* a refresh that held a token was rejected with a 401 by both data endpoints
\* and did not log in
C9_Witness ==
    /\ op = "update"
    /\ Truthy(access_token)
    /\ ~Issued(requests, "login")
    /\ env.energy.status = 401
    /\ env.stats.status = 401

\* the last element of seq that is not None; None if there is none
RECURSIVE LastPresent(_)
LastPresent(seq) ==
    IF seq = << >> THEN PyNone
    ELSE IF seq[Len(seq)] # PyNone THEN seq[Len(seq)]
    ELSE LastPresent(SubSeq(seq, 1, Len(seq) - 1))

\* C6: read once after every cycle, the charge-level sensor returns the
\* batterySoc of the latest snapshot so far that had one; snapshots
\* 55, None, None, 60 read as 55, 55, 55, 60
C6_StickyChargeLevel ==
    /\ \A i \in 1 .. Len(socReads) : socReads[i] = LastPresent(SubSeq(socSnaps, 1, i))
    /\ (socSnaps = <<IntVal(55), PyNone, PyNone, IntVal(60)>> /\ Len(socReads) = 4)
       => socReads = <<IntVal(55), IntVal(55), IntVal(55), IntVal(60)>>

\* the four cycles 55, None, None, 60, each followed by its reading
C6_Witness ==
    /\ socSnaps = <<IntVal(55), PyNone, PyNone, IntVal(60)>>
    /\ Len(socReads) = 4

\* C7: a power sensor returns its source field v unchanged when |v| <= 100,
\* a hundredth nearest to v / 1000 when |v| > 100, and None when v is absent
C7_PowerAutoScale ==
    op \in PowerSensors =>
        LET m == data["energy_flow"].m
            v == IF SourceField(op) \in DOMAIN m THEN m[SourceField(op)] ELSE PyNone
        IN  /\ raised = "none"
            /\ CASE v = PyNone -> ret = PyNone
                 [] v # PyNone /\ Abs(Hundredths(v)) <= 100 * 100 -> ret = v
                 [] OTHER -> ret.t = "float" /\ Abs(1000 * ret.n - Hundredths(v)) <= 500

\* the grid sensor read -1125 W and returned -1.12 kW
C7_Witness ==
    /\ op = "MySigenGridPower"
    /\ data["energy_flow"] = DictVal([buySellPower |-> IntVal(-1125)])
    /\ ret = Float2Val(-112)

\* C10: setup_platform registers the nine sensors exactly when both
\* credentials are configured and its login is granted; otherwise it registers
\* none and asks neither the station, the energy-flow nor the statistics endpoint
C10_SetupNeedsLogin ==
    op = "setup_platform" =>
        LET granted == /\ Truthy(config.username)
                       /\ Truthy(config.password)
                       /\ Grants(env.auth)
        IN  /\ entities = IF granted THEN Sensors ELSE {}
            /\ ~granted => \A e \in {"station", "energy", "stats"} : ~Issued(requests, e)

\* setup_platform had both credentials, its login failed, and it stopped
C10_Witness ==
    /\ op = "setup_platform"
    /\ Truthy(config.username) /\ Truthy(config.password)
    /\ env.auth \in Failures
    /\ setup = "halted"
    /\ entities = {}

\* C11: a sensor other than the charge-level one returns None whenever its source
\* field has no value in the cached snapshot (or no snapshot is cached), also
\* after it saw the field in an earlier snapshot and returned its value
C11_NoMemoryButChargeLevel ==
    (op \in Sensors \ {"MySigenBatterySoC"} /\ Absent(data, op))
        => (raised = "none" /\ ret = PyNone)

\* the battery power sensor returned a value from one snapshot, and None from
\* a later snapshot that is cached and has no batteryPower
C11_Witness ==
    /\ op = "MySigenBatteryPower"
    /\ lastSeen["MySigenBatteryPower"].t = "float"
    /\ "energy_flow" \in DOMAIN data
    /\ Absent(data, "MySigenBatteryPower")
    /\ ret = PyNone

\* a station lookup that yields a station id: a successful response whose data
\* carries a stationId that is not null
YieldsStation(o) ==
    /\ Succeeds(o)
    /\ DataOf(o).t = "dict"
    /\ DictGet(DataOf(o).m, "stationId", PyNone) # PyNone

\* C12: a refresh that starts without a station id and whose station lookup
\* yields none (it fails, is not a 200, has a non-zero code, or succeeds with
\* stationId missing or null) asks neither the energy-flow nor the statistics
\* endpoint, is still without a station id afterwards, and leaves both cached
\* snapshots as they were when it started
C12_NoStationAbortsCycle ==
    ( /\ op \in {"update", "update waits"}
      /\ ~Truthy(call.station_id)
      /\ Issued(requests, "station")
      /\ env.station # Unused
      /\ ~YieldsStation(env.station) )
    => /\ ~Issued(requests, "energy")
       /\ ~Issued(requests, "stats")
       /\ ~Truthy(station_id)
       /\ data = call.data

\* a login response that carries an access token that is not null
CarriesToken(o) == Grants(o) /\ DataOf(o).m.access_token # PyNone

\* C13: authenticate() never raises; it returns True exactly when the login
\* response has status 200, code 0 and carries an access token, and then the
\* cached token is the one of the response; otherwise it returns False and the
\* cached token is as it was
C13_AuthenticateSuccessExactly ==
    [][ op' = "authenticate"
        => /\ raised' = "none"
           /\ IF CarriesToken(env'.auth)
              THEN ret' = BoolVal(TRUE) /\ access_token' = DataOf(env'.auth).m.access_token
              ELSE ret' = BoolVal(FALSE) /\ access_token' = access_token ]_vars

\* how many of the requests reqs went to endpoint e
Times(reqs, e) == Cardinality({i \in DOMAIN reqs : reqs[i] = e})

\* C14: a refresh issues at most one login, one station-lookup, one energy-flow
\* and one statistics request, whatever the endpoints answer
C14_NoRetries ==
    op = "update" =>
        \A e \in {"login", "station", "energy", "stats"} : Times(requests, e) <= 1

\* a refresh issued all four requests, the energy-flow one was rejected with a
\* 401 and the statistics one failed, and none was repeated
C14_Witness ==
    /\ op = "update"
    /\ requests = <<"login", "station", "energy", "stats">>
    /\ env.energy.status = 401
    /\ env.stats \in Failures

\* C15: reading the current value of a sensor leaves the token, the station id
\* and both cached snapshots as they were; whatever changes one of them is an
\* authenticate() or a step of a refresh
C15_ReadersLeaveSession ==
    [][ /\ op' \in Sensors => UNCHANGED <<access_token, station_id, data>>
        /\ <<access_token, station_id, data>>' # <<access_token, station_id, data>>
              => op' \in {"authenticate", "update", "update waits"} ]_vars

\* the charge-level sensor was read and stored a value in its own memory, with
\* a token, a station id and an energy_flow snapshot cached and no statistics
\* snapshot: the lookup of a generation sensor would fall back on its default
C15_Witness ==
    /\ op = "MySigenBatterySoC"
    /\ last_valid_value # PyNone
    /\ Truthy(access_token)
    /\ Truthy(station_id)
    /\ DOMAIN data = {"energy_flow"}

\* C16: after any sequence of authenticate() and refresh calls, a cached station
\* id comes with a cached token, and a cached energy_flow or statistics
\* snapshot comes with a cached station id
C16_TokenThenStationThenData ==
    /\ Truthy(station_id) => Truthy(access_token)
    /\ DOMAIN data # {} => Truthy(station_id)

\* C17: the memory of the charge-level sensor is what its latest query that saw
\* a batterySoc returned (None if there was none), refreshes leave it alone,
\* and that is what a query returns when the cached snapshot has no batterySoc
C17_MemoryOfQueriesOnly ==
    /\ last_valid_value = lastSeen["MySigenBatterySoC"]
    /\ (op = "MySigenBatterySoC" /\ Absent(data, "MySigenBatterySoC"))
          => (raised = "none" /\ ret = lastSeen["MySigenBatterySoC"])

\* refreshes installed batterySoc 60, then 55, then a snapshot without one; the
\* sensor was queried at 60 and again at the last snapshot, not at 55, and
\* returned 60
C17_Witness ==
    /\ op = "MySigenBatterySoC"
    /\ socSnaps = <<IntVal(60), IntVal(55), PyNone>>
    /\ lastSeen["MySigenBatterySoC"] = IntVal(60)
    /\ ret = IntVal(60)

\* C18: in a polling round the update() of every sensor refreshes the shared
\* client: it issues the energy-flow and the statistics request, and the sensor
\* then reads from the snapshot that this refresh fetched; a round over the
\* nine sensors of the list is nine refreshes
C18_EverySensorRefreshes ==
    /\ \A i \in DOMAIN polled :
          /\ polled[i].sensor = SensorList[i]
          /\ polled[i].requests = <<"energy", "stats">>
          /\ polled[i].source = <<DataOf(polled[i].answer)>>
    /\ Len(polled) = Len(SensorList)
          => /\ Cardinality({i \in DOMAIN polled : Issued(polled[i].requests, "energy")}) = 9
             /\ {polled[i].sensor : i \in DOMAIN polled} = Sensors

\* a complete round in which the battery power sensor read batteryPower from
\* one energy_flow snapshot and the PV power sensor, polled next, read pvPower
\* from another
C18_Witness ==
    /\ Len(polled) = Len(SensorList)
    /\ polled[2].source = <<DictVal(FirstEnergy)>>
    /\ polled[2].ret.t = "float"
    /\ polled[3].source # polled[2].source
    /\ polled[3].ret = IntVal(0)

TypeOK ==
    /\ access_token \in {PyNone} \cup Tokens
    /\ DOMAIN data \subseteq {"energy_flow", "statistics"}
    /\ entities \in {{}, Sensors}

====
